---- MODULE Spec2Model ----
(***************************************************************************)
(* GameTrc: the page script src/src/main.js (state object, async handlers, *)
(* DOM it writes) driving the Tauri command layer.  The command layer      *)
(* (search_games, add_game, ...) is not part of src/; it is modelled from  *)
(* spec.md sections 4 and 6.                                               *)
(*                                                                         *)
(* Encoding of JavaScript values:                                          *)
(*   text          TLA+ strings; Null stands for null                      *)
(*   ids           positive integers; NoId (0) stands for null (the script *)
(*                 tests ids by truthiness, main.js:514, 760, 797)         *)
(*   numbers       naturals; NoNum (-1) stands for null                    *)
(*   arrays        sequences                                               *)
(*                                                                         *)
(* Of the DOM, the model keeps what the handlers read back or what decides *)
(* which handlers can run; captions (#modalTitle, the text of #submitBtn,  *)
(* #viewTitle), the cover preview and the datalists are left out.          *)
(***************************************************************************)
EXTENDS Integers, Sequences, FiniteSets, TLC

VARIABLES
    state,      \* the script's state object                  (main.js:27-43)
    form,       \* the inputs of #gameForm and its buttons
    dom,        \* the other DOM nodes the script writes
    tasks,      \* async handlers suspended at an await, in the order issued
    toast,      \* the toasts shown by the latest step (they expire, main.js:88)
    db,         \* the command layer's collection
    nextId,     \* the command layer's next fresh id
    clock       \* the command layer's logical time (updated_at)

vars == <<state, form, dom, tasks, toast, db, nextId, clock>>

\* ------------------------------------------------------------------ bounds

MaxTasks   == 2     \* handlers suspended at the same time
MaxWrites  == 1      \* mutating commands the command layer accepts in a run
MaxTags    == 2      \* genre tags in the form

\* ------------------------------------------------------------ JS encodings

Null  == "<null>"
NoId  == 0
NoNum == -1

Statuses == {"NotStarted", "Playing", "Completed", "Dropped", "Backlog", "Wishlist"}

SortFields == {"Title", "ReleaseDate", "Rating", "PlaytimeHours", "ProgressPercent", "UpdatedAt"}

Views == {"library", "backlog", "wishlist", "stats"}

\* String.prototype.trim: strips leading and trailing white space.
IsSpace(c) == c \in {" ", "\t", "\n"}

RECURSIVE TrimStart(_)
TrimStart(s) ==
    IF Len(s) > 0 /\ IsSpace(SubSeq(s, 1, 1)) THEN TrimStart(SubSeq(s, 2, Len(s))) ELSE s

RECURSIVE TrimEnd(_)
TrimEnd(s) ==
    IF Len(s) > 0 /\ IsSpace(SubSeq(s, Len(s), Len(s)))
    THEN TrimEnd(SubSeq(s, 1, Len(s) - 1)) ELSE s

Trim(s) == TrimEnd(TrimStart(s))

\* `x` sent as it is, without the `|| null` (a variant of OrNull).
OrNullKept(x) == x

\* `x || null` on a text value: the empty string is falsy.
OrNull(x) == IF x = "" THEN Null ELSE x

\* Array.prototype.includes / filter on a sequence.
Includes(seq, x) == \E i \in 1..Len(seq) : seq[i] = x

Range(seq) == {seq[i] : i \in 1..Len(seq)}

RemoveAt(seq, i) == SubSeq(seq, 1, i - 1) \o SubSeq(seq, i + 1, Len(seq))

\* ------------------------------------------------- command layer (spec.md)

\* Text order: by character, then by length (the characters the model uses).
Chars == " -./0123456789:ABCDEFGHIJKLMNOPQRSTUVWXYZabcdefghijklmnopqrstuvwxyz"

CharCode(c) == CHOOSE i \in 1..Len(Chars) : SubSeq(Chars, i, i) = c

RECURSIVE StrLess(_, _)
StrLess(a, b) ==
    IF Len(b) = 0 THEN FALSE
    ELSE IF Len(a) = 0 THEN TRUE
    ELSE IF SubSeq(a, 1, 1) # SubSeq(b, 1, 1)
         THEN CharCode(SubSeq(a, 1, 1)) < CharCode(SubSeq(b, 1, 1))
         ELSE StrLess(SubSeq(a, 2, Len(a)), SubSeq(b, 2, Len(b)))

LowerChar(c) ==
    IF CharCode(c) \in 16..41 THEN SubSeq(Chars, CharCode(c) + 26, CharCode(c) + 26) ELSE c

RECURSIVE Lower(_)
Lower(s) == IF Len(s) = 0 THEN "" ELSE LowerChar(SubSeq(s, 1, 1)) \o Lower(SubSeq(s, 2, Len(s)))

Contains(s, sub) ==
    \E i \in 1..(Len(s) - Len(sub) + 1) : SubSeq(s, i, i + Len(sub) - 1) = sub

\* spec.md 4.2 `query`: case-insensitive substring of title, franchise or notes.
MatchesQuery(g, q) ==
    \E t \in {g.title, g.franchise, g.notes} : t # Null /\ Contains(Lower(t), Lower(q))

\* spec.md 4.2: the supplied predicates compose with AND.
Matches(g, f) ==
    /\ f.query = Null \/ MatchesQuery(g, f.query)
    /\ f.status = Null \/ g.status = f.status
    /\ f.platform = Null \/ g.platform = f.platform
    /\ f.franchise = Null \/ g.franchise = f.franchise
    /\ f.genre = Null \/ Includes(g.genres, f.genre)

TextSortFields == {"Title", "ReleaseDate"}

SortKey(g, field) ==
    CASE field = "Title"           -> g.title
      [] field = "ReleaseDate"     -> g.release_date
      [] field = "Rating"          -> g.rating
      [] field = "PlaytimeHours"   -> g.playtime_hours
      [] field = "ProgressPercent" -> g.progress_percent
      [] OTHER                     -> g.updated_at

KeyIsNull(k, field) == IF field \in TextSortFields THEN k = Null ELSE k = NoNum

KeyLess(a, b, field) == IF field \in TextSortFields THEN StrLess(a, b) ELSE a < b

\* spec.md 4.2 sort: absent keys last in both directions, ties by id ascending.
Before(a, b, field, asc) ==
    LET ka == SortKey(a, field)
        kb == SortKey(b, field)
    IN  IF KeyIsNull(ka, field) # KeyIsNull(kb, field) THEN KeyIsNull(kb, field)
        ELSE IF KeyIsNull(ka, field) \/ ka = kb THEN a.id < b.id
        ELSE IF asc THEN KeyLess(ka, kb, field) ELSE KeyLess(kb, ka, field)

RECURSIVE InsertSorted(_, _, _, _)
InsertSorted(g, seq, field, asc) ==
    IF Len(seq) = 0 THEN <<g>>
    ELSE IF Before(g, Head(seq), field, asc) THEN <<g>> \o seq
    ELSE <<Head(seq)>> \o InsertSorted(g, Tail(seq), field, asc)

RECURSIVE SortGames(_, _, _)
SortGames(seq, field, asc) ==
    IF Len(seq) = 0 THEN <<>>
    ELSE InsertSorted(Head(seq), SortGames(Tail(seq), field, asc), field, asc)

\* search_games (spec.md 4.2, 6)
SearchGames(store, f) ==
    SortGames(SelectSeq(store, LAMBDA g : Matches(g, f)), f.sort_by, f.sort_asc)

RECURSIVE SortedTexts(_)
SortedTexts(S) ==
    IF S = {} THEN <<>>
    ELSE LET m == CHOOSE x \in S : \A y \in S \ {x} : StrLess(x, y)
         IN  <<m>> \o SortedTexts(S \ {m})

\* get_platforms / get_franchises / get_genres (spec.md 6): the sorted
\* distinct values in use.
GetPlatforms(store) == SortedTexts({store[i].platform : i \in 1..Len(store)})

GetFranchises(store) == SortedTexts({store[i].franchise : i \in 1..Len(store)} \ {Null})

GetGenres(store) == SortedTexts(UNION {Range(store[i].genres) : i \in 1..Len(store)})

RECURSIVE Sum(_)
Sum(nums) == IF Len(nums) = 0 THEN 0 ELSE Head(nums) + Sum(Tail(nums))

\* A nullable number counted as 0 when absent.
OrZero(n) == IF n = NoNum THEN 0 ELSE n

\* get_stats (spec.md 4.3).  average_rating is kept in tenths, completion_rate
\* in whole percent; the grouped listings and recent completions are derived
\* from the same collection and are not carried.
ComputeStats(store) ==
    LET rated == Len(SelectSeq(store, LAMBDA g : g.rating # NoNum))
        owned == Len(SelectSeq(store, LAMBDA g : g.status # "Wishlist"))
        done  == Len(SelectSeq(store, LAMBDA g : g.status = "Completed"))
    IN  [ total_games          |-> Len(store),
          total_playtime_hours |-> Sum([i \in 1..Len(store) |-> OrZero(store[i].playtime_hours)]),
          average_rating       |-> IF rated = 0 THEN NoNum
                                   ELSE (10 * Sum([i \in 1..Len(store) |-> OrZero(store[i].rating)])) \div rated,
          completion_rate      |-> IF owned = 0 THEN 0 ELSE (100 * done) \div owned,
          by_status            |-> [s \in Statuses |-> Len(SelectSeq(store, LAMBDA g : g.status = s))] ]

HasId(store, id) == \E i \in 1..Len(store) : store[i].id = id

\* add (spec.md 4.1): title and platform must be non-empty.
ValidInput(input) == input.title # "" /\ input.platform # ""

\* The stored record made of an input, an id and the write time.
Stored(input, id, now) ==
    [ id |-> id, updated_at |-> now,
      title |-> input.title, franchise |-> input.franchise,
      sequence_in_franchise |-> input.sequence_in_franchise,
      platform |-> input.platform, release_date |-> input.release_date,
      developer |-> input.developer, publisher |-> input.publisher,
      status |-> input.status, progress_percent |-> input.progress_percent,
      playtime_hours |-> input.playtime_hours, rating |-> input.rating,
      notes |-> input.notes, cover_art_path |-> input.cover_art_path,
      screenshots |-> input.screenshots, genres |-> input.genres ]

AddGame(store, input, id, now) == Append(store, Stored(input, id, now))

\* update (spec.md 4.1): full replace of the record with that id.
UpdateGame(store, id, input, now) ==
    [i \in 1..Len(store) |-> IF store[i].id = id THEN Stored(input, id, now) ELSE store[i]]

DeleteGame(store, id) == SelectSeq(store, LAMBDA g : g.id # id)

\* process_cover_image (spec.md 6): a stable path under the data directory.
ProcessedCover(path) == "covers/" \o path

\* ------------------------------------------------------------- input sets

\* The collection the command layer holds when the page loads.
Zelda ==
    [ id |-> 1, updated_at |-> 0, title |-> "Zelda", franchise |-> "Zelda",
      sequence_in_franchise |-> 1, platform |-> "Switch", release_date |-> "2017-03-03",
      developer |-> "Nintendo", publisher |-> "Nintendo", status |-> "Backlog",
      progress_percent |-> NoNum, playtime_hours |-> NoNum, rating |-> NoNum,
      notes |-> Null, cover_art_path |-> Null, screenshots |-> <<>>, genres |-> <<"RPG">> ]

Hades ==
    [ id |-> 2, updated_at |-> 0, title |-> "Hades", franchise |-> Null,
      sequence_in_franchise |-> NoNum, platform |-> "PC", release_date |-> Null,
      developer |-> Null, publisher |-> Null, status |-> "Completed",
      progress_percent |-> 100, playtime_hours |-> 40, rating |-> 9,
      notes |-> "great run", cover_art_path |-> "covers/hades.png",
      screenshots |-> <<"shot1.png">>, genres |-> <<"Indie", "RPG">> ]

InitialDb == <<Zelda, Hades>>

SearchTexts == {"", " zel "}           \* what the user types in the search box
StatusChips == {"", "Backlog"}         \* data-status of the chips clicked
SortChoices == {"UpdatedAt", "Title"}  \* options of #sortSelect picked
TitleTexts  == {" ", "Halo "}          \* typed into #f_title
PlatformTexts == {"PC"}                \* typed into #f_platform
CoverPaths  == {"/tmp/halo.png"}       \* picked with the file dialog
GenreTexts  == {" ", "RPG", " Indie "} \* typed into #genreInput before Enter
Stars       == {8}                     \* data-v of the stars clicked
StatusOpts  == {"Playing"}             \* data-val of the status options clicked
EditIds     == {2}                     \* cards whose edit button is clicked
DeleteIds   == {1}                     \* cards whose delete button is clicked

\* ------------------------------------------------------------- page state

\* state (main.js:27-43)
InitialState ==
    [ games |-> <<>>, allPlatforms |-> <<>>, allFranchises |-> <<>>, allGenres |-> <<>>,
      currentFilter |-> [ query |-> "", status |-> "", platform |-> "", franchise |-> "",
                          genre |-> "", sortBy |-> "UpdatedAt", sortAsc |-> FALSE ],
      activeView |-> "library", selectedGameId |-> NoId, editingGameId |-> NoId,
      pendingDeleteId |-> NoId, formGenres |-> <<>>, formRating |-> NoNum,
      isListView |-> FALSE ]

\* #gameForm as form.reset() leaves it (main.js:494-512), closed.
InitialForm ==
    [ open |-> FALSE, submitDisabled |-> FALSE,
      f_title |-> "", f_franchise |-> "", f_sequence |-> "", f_platform |-> "",
      f_release_date |-> "", f_developer |-> "", f_publisher |-> "",
      f_progress |-> "0", f_playtime |-> "", f_notes |-> "", f_cover_art_path |-> "",
      statusActive |-> {"NotStarted"} ]

\* The nodes the script fills in, before it has run.
InitialDom ==
    [ gameGrid |-> <<>>, gameCount |-> "", emptyHidden |-> TRUE,
      statsGrid |-> [phase |-> "blank", stats |-> <<>>],
      platformChips |-> <<>>, genreChips |-> <<>>,
      confirmVisible |-> FALSE, confirmGameTitle |-> "", detailOpen |-> FALSE ]

\* The filter argument of search_games (main.js:109-117).
FilterArg(f) ==
    [ query |-> OrNull(f.query), status |-> OrNull(f.status),
      platform |-> OrNull(f.platform), franchise |-> OrNull(f.franchise),
      genre |-> OrNull(f.genre), sort_by |-> f.sortBy, sort_asc |-> f.sortAsc ]

\* A handler suspended at `await invoke(cmd, ...)`; chain names the caller
\* that resumes after it: "refresh", "submit", "delete", "init" or "stats".
SearchTask(chain, f) == [cmd |-> "search_games", chain |-> chain, filter |-> FilterArg(f)]

MetaCmds == {"get_platforms", "get_franchises", "get_genres"}

\* loadMeta's Promise.all over the three commands (main.js:128-132).
MetaTask(chain) == [cmd |-> "meta", chain |-> chain, waiting |-> MetaCmds, got |-> [c \in MetaCmds |-> <<>>]]

StatsTask == [cmd |-> "get_stats", chain |-> "stats"]

Toast(msg, type) == [msg |-> msg, type |-> type]

\* renderGames without its view-level filter (a variant of ViewGames).
ViewGamesAll(games, view) == games

\* The view-level filter of renderGames (main.js:152-154).
ViewGames(games, view) ==
    IF view = "backlog" THEN SelectSeq(games, LAMBDA g : g.status = "Backlog")
    ELSE IF view = "wishlist" THEN SelectSeq(games, LAMBDA g : g.status = "Wishlist")
    ELSE games

\* `${n} game${n !== 1 ? "s" : ""}` (main.js:156)
CountText(n) == ToString(n) \o " game" \o (IF n # 1 THEN "s" ELSE "")

\* renderGames (main.js:146-167): d is the DOM before, st the state to show.
RenderGames(d, st) ==
    LET shown == ViewGames(st.games, st.activeView)
    IN  [d EXCEPT !.gameCount   = CountText(Len(shown)),
                  !.gameGrid    = shown,
                  !.emptyHidden = Len(shown) # 0]

GenreChipLimit == 12

\* renderPlatformFilters and renderGenreFilters (main.js:331-367): the "All"
\* chip (data value "") and one chip per value.
RenderFilters(d, st) ==
    [d EXCEPT !.platformChips = <<"">> \o st.allPlatforms,
              !.genreChips    = <<"">> \o SubSeq(st.allGenres, 1,
                                    IF Len(st.allGenres) < GenreChipLimit
                                    THEN Len(st.allGenres) ELSE GenreChipLimit)]

GridIds == {dom.gameGrid[i].id : i \in 1..Len(dom.gameGrid)}

FindGame(games, id) == SelectSeq(games, LAMBDA g : g.id = id)

\* Another handler may start and suspend.
CanStart == Len(tasks) < MaxTasks

Init ==
    /\ state = InitialState
    /\ form = InitialForm
    /\ dom = InitialDom
    /\ tasks = <<SearchTask("init", InitialState.currentFilter), MetaTask("init")>>
    /\ toast = <<>>
    /\ db = InitialDb
    /\ nextId = Len(InitialDb) + 1
    /\ clock = 0

\* The page once init() has run to its end with every command answered
\* (main.js:923-928): the games and the meta lists loaded and rendered.
LoadedState ==
    [InitialState EXCEPT !.games = SearchGames(InitialDb, FilterArg(InitialState.currentFilter)),
                         !.allPlatforms = GetPlatforms(InitialDb),
                         !.allFranchises = GetFranchises(InitialDb),
                         !.allGenres = GetGenres(InitialDb)]

InitLoaded ==
    /\ state = LoadedState
    /\ form = InitialForm
    /\ dom = RenderFilters(RenderGames(InitialDom, LoadedState), LoadedState)
    /\ tasks = <<>>
    /\ toast = <<>>
    /\ db = InitialDb
    /\ nextId = Len(InitialDb) + 1
    /\ clock = 0

\* ------------------------------------------------- search, sort and filters

\* refresh() up to its first await (main.js:912-913, 105-118).
Refresh(st) ==
    /\ CanStart
    /\ state' = st
    /\ tasks' = Append(tasks, SearchTask("refresh", st.currentFilter))
    /\ toast' = <<>>
    /\ UNCHANGED <<form, dom, db, nextId, clock>>

\* The search box's debounce timer fires (main.js:846-849).
SearchInput(text) ==
    Refresh([state EXCEPT !.currentFilter.query = Trim(text)])

\* #sortSelect change (main.js:865-868)
SortChange(field) ==
    Refresh([state EXCEPT !.currentFilter.sortBy = field])

\* a status chip is clicked (main.js:870-876)
StatusChipClick(s) ==
    /\ state.activeView # "stats"
    /\ Refresh([state EXCEPT !.currentFilter.status = s])

\* a platform chip is clicked (main.js:342-346)
PlatformChipClick(p) ==
    /\ state.activeView # "stats"
    /\ Includes(dom.platformChips, p)
    /\ Refresh([state EXCEPT !.currentFilter.platform = p])

\* a genre chip is clicked (main.js:361-365)
GenreChipClick(g) ==
    /\ state.activeView # "stats"
    /\ Includes(dom.genreChips, g)
    /\ Refresh([state EXCEPT !.currentFilter.genre = g])

\* ------------------------------------------------------------- navigation

\* A nav click that also reloads the games (a variant of NavClick).
NavClickReload(view) ==
    /\ CanStart
    /\ state' = [state EXCEPT !.activeView = view]
    /\ tasks' = Append(tasks, SearchTask("refresh", state.currentFilter))
    /\ toast' = <<>>
    /\ UNCHANGED <<form, dom, db, nextId, clock>>

\* a .nav-item is clicked (main.js:815-836)
NavClick(view) ==
    LET st == [state EXCEPT !.activeView = view]
    IN  /\ state' = st
        /\ IF view # "stats"
           THEN /\ dom' = RenderGames(dom, st)
                /\ tasks' = tasks
           ELSE /\ CanStart
                /\ dom' = [dom EXCEPT !.statsGrid = [phase |-> "loading", stats |-> <<>>]]
                /\ tasks' = Append(tasks, StatsTask)
        /\ toast' = <<>>
        /\ UNCHANGED <<form, db, nextId, clock>>

\* #gridViewBtn / #listViewBtn (main.js:883-894)
ViewToggle(list) ==
    LET st == [state EXCEPT !.isListView = list]
    IN  /\ state' = st
        /\ dom' = RenderGames(dom, st)
        /\ toast' = <<>>
        /\ UNCHANGED <<form, tasks, db, nextId, clock>>

\* ------------------------------------------------------ replies to reads

\* There is another part of init()'s Promise.all still pending (main.js:924).
InitPending(rest) == \E j \in 1..Len(rest) : rest[j].chain = "init"

\* init()'s tail, once both loadGames and loadMeta are done (main.js:925-927).
InitTail(d, st, rest) ==
    IF InitPending(rest) THEN d ELSE RenderFilters(RenderGames(d, st), st)

\* search_games replies to loadGames (main.js:108-123), and the caller goes
\* on: refresh renders, and reloads the meta lists after a write (main.js:914-915).
SearchReply(i, ok) ==
    LET t    == tasks[i]
        rest == RemoveAt(tasks, i)
        st   == [state EXCEPT !.games = IF ok THEN SearchGames(db, t.filter) ELSE <<>>]
    IN  /\ t.cmd = "search_games"
        /\ state' = st
        /\ toast' = IF ok THEN <<>> ELSE <<Toast("Failed to load games", "error")>>
        /\ dom' = IF t.chain = "init" THEN InitTail(dom, st, rest) ELSE RenderGames(dom, st)
        /\ tasks' = IF t.chain \in {"submit", "delete"}
                    THEN Append(rest, MetaTask(t.chain)) ELSE rest
        /\ UNCHANGED <<form, db, nextId, clock>>

MetaValue(c) ==
    CASE c = "get_platforms"  -> GetPlatforms(db)
      [] c = "get_franchises" -> GetFranchises(db)
      [] OTHER                -> GetGenres(db)

\* The submit handler without its `finally` (a variant of SubmitFinally).
SubmitFinallyMissing(fm) == fm

\* The `finally` of the submit handler (main.js:772-775).
SubmitFinally(fm) == [fm EXCEPT !.submitDisabled = FALSE]

\* The rest of loadMeta and of its caller (main.js:133-138, 772-775, 925-927).
MetaDone(i, st) ==
    LET t    == tasks[i]
        rest == RemoveAt(tasks, i)
        d    == RenderFilters(dom, st)
    IN  /\ state' = st
        /\ tasks' = rest
        /\ dom' = IF t.chain = "init" THEN InitTail(d, st, rest) ELSE d
        /\ form' = IF t.chain = "submit"
                   THEN SubmitFinally(form) ELSE form

\* One of loadMeta's three commands replies (main.js:128-135).
MetaReply(i, c, ok) ==
    LET t   == tasks[i]
        got == [t.got EXCEPT ![c] = MetaValue(c)]
    IN  /\ t.cmd = "meta"
        /\ c \in t.waiting
        /\ toast' = <<>>
        /\ IF ~ok THEN MetaDone(i, state)
           ELSE IF t.waiting = {c}
           THEN MetaDone(i, [state EXCEPT !.allPlatforms  = got["get_platforms"],
                                          !.allFranchises = got["get_franchises"],
                                          !.allGenres     = got["get_genres"]])
           ELSE /\ tasks' = [tasks EXCEPT ![i].waiting = @ \ {c}, ![i].got = got]
                /\ UNCHANGED <<state, dom, form>>
        /\ UNCHANGED <<db, nextId, clock>>

\* get_stats replies to renderStats (main.js:386-472).
StatsReply(i, ok) ==
    /\ tasks[i].cmd = "get_stats"
    /\ tasks' = RemoveAt(tasks, i)
    /\ dom' = [dom EXCEPT !.statsGrid =
                 IF ok THEN [phase |-> "shown", stats |-> <<ComputeStats(db)>>]
                 ELSE [phase |-> "error", stats |-> <<>>]]
    /\ toast' = <<>>
    /\ UNCHANGED <<state, form, db, nextId, clock>>

\* ------------------------------------------------------------ detail panel

\* closeDetail (main.js:320-324)
CloseDetailState(st) == [st EXCEPT !.selectedGameId = NoId]

\* a game card is clicked: openDetail (main.js:171-174, 250-308)
OpenDetail(id) ==
    /\ state.activeView # "stats"
    /\ id \in GridIds
    /\ IF FindGame(state.games, id) = <<>>
       THEN UNCHANGED <<state, dom>>
       ELSE /\ state' = [state EXCEPT !.selectedGameId = id]
            /\ dom' = [dom EXCEPT !.detailOpen = TRUE]
    /\ toast' = <<>>
    /\ UNCHANGED <<form, tasks, db, nextId, clock>>

\* #overlay / #detailClose (main.js:901-902)
CloseDetail ==
    /\ dom.detailOpen
    /\ state' = CloseDetailState(state)
    /\ dom' = [dom EXCEPT !.detailOpen = FALSE]
    /\ toast' = <<>>
    /\ UNCHANGED <<form, tasks, db, nextId, clock>>

\* ------------------------------------------------------- add / edit modal

OrEmpty(x) == IF x = Null THEN "" ELSE x

\* A number written into an input's value, and read back with parseInt /
\* parseFloat (the model's numbers are whole).
NumText(n) == ToString(n)

ParseNum(text) == CHOOSE n \in 0..100 : ToString(n) = text

\* openModal's effect on the form (main.js:490-561).
OpenModalForm(fm, st, id) ==
    LET found == FindGame(st.games, id)
        reset == [InitialForm EXCEPT !.open = fm.open, !.submitDisabled = fm.submitDisabled]
    IN  IF id = NoId THEN [reset EXCEPT !.open = TRUE]
        ELSE IF found = <<>> THEN reset
        ELSE LET game == found[1]
             IN  [reset EXCEPT
                    !.f_title = game.title,
                    !.f_franchise = OrEmpty(game.franchise),
                    !.f_sequence = IF game.sequence_in_franchise \in {NoNum, 0}
                                   THEN "" ELSE NumText(game.sequence_in_franchise),
                    !.f_platform = game.platform,
                    !.f_release_date = OrEmpty(game.release_date),
                    !.f_developer = OrEmpty(game.developer),
                    !.f_publisher = OrEmpty(game.publisher),
                    !.f_progress = NumText(OrZero(game.progress_percent)),
                    !.f_playtime = IF game.playtime_hours = NoNum
                                   THEN "" ELSE NumText(game.playtime_hours),
                    !.f_notes = OrEmpty(game.notes),
                    !.f_cover_art_path = OrEmpty(game.cover_art_path),
                    !.statusActive = {game.status} \cap Statuses,
                    !.open = TRUE]

\* openModal's effect on state (main.js:489, 495-496, 552-558).
OpenModalState(st, id) ==
    LET found == FindGame(st.games, id)
        reset == [st EXCEPT !.editingGameId = id, !.formGenres = <<>>, !.formRating = NoNum]
    IN  IF id = NoId \/ found = <<>> THEN reset
        ELSE [reset EXCEPT !.formGenres = found[1].genres, !.formRating = found[1].rating]

\* input.genres is the array state.formGenres itself (main.js:740): a handler
\* suspended at process_cover_image sees later pushes, until state.formGenres
\* is assigned another array.
IsAliased(t) == t.cmd = "process_cover_image" /\ t.aliased

Detached(ts) == [i \in 1..Len(ts) |-> IF IsAliased(ts[i]) THEN [ts[i] EXCEPT !.aliased = FALSE] ELSE ts[i]]

Pushed(ts, val) ==
    [i \in 1..Len(ts) |-> IF IsAliased(ts[i])
                          THEN [ts[i] EXCEPT !.input.genres = Append(@, val)] ELSE ts[i]]

\* openModal(id) (main.js:488-562)
OpenModal(st, id) ==
    /\ state' = OpenModalState(st, id)
    /\ form' = OpenModalForm(form, st, id)
    /\ tasks' = Detached(tasks)
    /\ toast' = <<>>
    /\ UNCHANGED <<db, nextId, clock>>

\* #addGameBtn (main.js:905)
OpenAdd == OpenModal(state, NoId) /\ UNCHANGED dom

\* the Edit button of the detail panel (main.js:310-313)
DetailEdit ==
    /\ dom.detailOpen
    /\ OpenModal(CloseDetailState(state), state.selectedGameId)
    /\ dom' = [dom EXCEPT !.detailOpen = FALSE]

\* the edit button of a list card (main.js:176-178, 230)
ListEdit(id) ==
    /\ state.activeView # "stats" /\ state.isListView
    /\ id \in GridIds
    /\ OpenModal(state, id)
    /\ UNCHANGED dom

\* closeModal (main.js:564-567)
CloseModalState(st) == [st EXCEPT !.editingGameId = NoId]

\* #modalClose / #cancelBtn (main.js:903-904)
CloseModal ==
    /\ form.open
    /\ state' = CloseModalState(state)
    /\ form' = [form EXCEPT !.open = FALSE]
    /\ toast' = <<>>
    /\ UNCHANGED <<dom, tasks, db, nextId, clock>>

\* A script writes a field of the open form.
EditForm(fm) ==
    /\ form.open
    /\ form' = fm
    /\ toast' = <<>>
    /\ UNCHANGED <<state, dom, tasks, db, nextId, clock>>

\* the file dialog returns a path (main.js:674-687)
PickCover(path) == EditForm([form EXCEPT !.f_cover_art_path = path])

\* A picker click that leaves the other options active (a variant of PickStatus).
PickStatusAdds(s) == EditForm([form EXCEPT !.statusActive = @ \cup {s}])

\* a status option is clicked (main.js:570-575)
PickStatus(s) == EditForm([form EXCEPT !.statusActive = {s}])

\* a star is clicked (main.js:590-596)
ClickStar(v) ==
    /\ form.open
    /\ state' = [state EXCEPT !.formRating = IF @ = v THEN NoNum ELSE v]
    /\ toast' = <<>>
    /\ UNCHANGED <<form, dom, tasks, db, nextId, clock>>

\* The keydown handler without its `includes` test (a variant of GenreKey).
GenreKeyUnchecked(text) ==
    LET val == Trim(text)
    IN  /\ form.open
        /\ IF val # ""
           THEN /\ Len(state.formGenres) < MaxTags
                /\ state' = [state EXCEPT !.formGenres = Append(@, val)]
                /\ tasks' = Pushed(tasks, val)
           ELSE UNCHANGED <<state, tasks>>
        /\ toast' = <<>>
        /\ UNCHANGED <<form, dom, db, nextId, clock>>

\* Enter or comma in #genreInput (main.js:617-627)
GenreKey(text) ==
    LET val == Trim(text)
    IN  /\ form.open
        /\ IF val # "" /\ ~Includes(state.formGenres, val)
           THEN /\ Len(state.formGenres) < MaxTags
                /\ state' = [state EXCEPT !.formGenres = Append(@, val)]
                /\ tasks' = Pushed(tasks, val)
           ELSE UNCHANGED <<state, tasks>>
        /\ toast' = <<>>
        /\ UNCHANGED <<form, dom, db, nextId, clock>>

\* the x of a genre tag is clicked (main.js:610-613)
RemoveTag(g) ==
    /\ form.open
    /\ Includes(state.formGenres, g)
    /\ state' = [state EXCEPT !.formGenres = SelectSeq(@, LAMBDA x : x # g)]
    /\ tasks' = Detached(tasks)
    /\ toast' = <<>>
    /\ UNCHANGED <<form, dom, db, nextId, clock>>

\* ------------------------------------------------------------------- save

\* The input object the submit handler builds (main.js:724-741).
FormInput(fm, st) ==
    [ title                 |-> Trim(fm.f_title),
      franchise             |-> OrNull(Trim(fm.f_franchise)),
      sequence_in_franchise |-> IF fm.f_sequence # "" THEN ParseNum(fm.f_sequence) ELSE NoNum,
      release_date          |-> OrNull(fm.f_release_date),
      platform              |-> Trim(fm.f_platform),
      status                |-> IF fm.statusActive # {}
                                THEN CHOOSE s \in fm.statusActive : TRUE ELSE "NotStarted",
      progress_percent      |-> ParseNum(fm.f_progress),
      playtime_hours        |-> IF fm.f_playtime # "" THEN ParseNum(fm.f_playtime) ELSE NoNum,
      rating                |-> st.formRating,
      notes                 |-> OrNull(Trim(fm.f_notes)),
      cover_art_path        |-> OrNull(fm.f_cover_art_path),
      screenshots           |-> <<>>,
      developer             |-> OrNull(Trim(fm.f_developer)),
      publisher             |-> OrNull(Trim(fm.f_publisher)),
      genres                |-> st.formGenres ]

\* The submit handler suspended at process_cover_image (main.js:749).  target
\* is a history field the code does not have: state.editingGameId as it was
\* when the form was submitted.
CoverTask(st, input) ==
    [cmd |-> "process_cover_image", chain |-> "submit", input |-> input, aliased |-> TRUE,
     target |-> st.editingGameId]

\* invoke("update_game" | "add_game") as state.editingGameId says (main.js:760-765).
SaveTask(st, input) ==
    [ cmd |-> IF st.editingGameId # NoId THEN "update_game" ELSE "add_game",
      chain |-> "submit", id |-> st.editingGameId, input |-> input ]

\* #gameForm submit, up to its first await (main.js:722-761).  title and
\* platform are the values of #f_title and #f_platform when the form is
\* submitted: what openModal wrote there, or what the user has typed over it
\* (no handler runs while the user types, and nothing else reads them).
Submit(title, platform) ==
    LET input == FormInput([form EXCEPT !.f_title = title, !.f_platform = platform], state)
    IN  /\ form.open /\ ~form.submitDisabled
        /\ CanStart
        /\ form' = [form EXCEPT !.submitDisabled = TRUE]
        /\ tasks' = Append(tasks, IF input.cover_art_path # Null
                                  THEN CoverTask(state, input) ELSE SaveTask(state, input))
        /\ toast' = <<>>
        /\ UNCHANGED <<state, dom, db, nextId, clock>>

\* The handler keeping the form's path when process_cover_image fails (a
\* variant of CoverReply).
CoverReplyKeepsPath(i, ok) ==
    LET t     == tasks[i]
        input == [t.input EXCEPT !.cover_art_path =
                     IF ok THEN ProcessedCover(t.input.cover_art_path) ELSE @]
    IN  /\ t.cmd = "process_cover_image"
        /\ tasks' = Append(RemoveAt(tasks, i), SaveTask(state, input))
        /\ toast' = IF ok THEN <<>>
                    ELSE <<Toast("Warning: Could not process cover image", "error")>>
        /\ UNCHANGED <<state, form, dom, db, nextId, clock>>

\* process_cover_image replies; the handler goes on to the write (main.js:750-765).
CoverReply(i, ok) ==
    LET t     == tasks[i]
        input == [t.input EXCEPT !.cover_art_path =
                     IF ok THEN ProcessedCover(t.input.cover_art_path) ELSE Null]
    IN  /\ t.cmd = "process_cover_image"
        /\ tasks' = Append(RemoveAt(tasks, i), SaveTask(state, input))
        /\ toast' = IF ok THEN <<>>
                    ELSE <<Toast("Warning: Could not process cover image", "error")>>
        /\ UNCHANGED <<state, form, dom, db, nextId, clock>>

\* The handler ending after its write, without refresh(true) (a variant of
\* RefreshAfterWrite).
RefreshSkipped(rest, chain, st) == rest

\* `await refresh(true)` after a write, up to its first await
\* (main.js:768, 803, 912-913): rest are the other suspended handlers.
RefreshAfterWrite(rest, chain, st) == Append(rest, SearchTask(chain, st.currentFilter))

\* The command layer accepts the write a task asks for.
Accepts(t) ==
    CASE t.cmd = "add_game"    -> ValidInput(t.input)
      [] t.cmd = "update_game" -> ValidInput(t.input) /\ HasId(db, t.id)
      [] OTHER                 -> HasId(db, t.id)

\* add_game / update_game replies (main.js:760-775).
SaveReply(i, ok) ==
    LET t    == tasks[i]
        rest == RemoveAt(tasks, i)
        st   == CloseModalState(state)
    IN  /\ t.cmd \in {"add_game", "update_game"}
        /\ ok => clock < MaxWrites
        /\ IF ok /\ Accepts(t)
           THEN /\ db' = IF t.cmd = "add_game" THEN AddGame(db, t.input, nextId, clock + 1)
                         ELSE UpdateGame(db, t.id, t.input, clock + 1)
                /\ nextId' = IF t.cmd = "add_game" THEN nextId + 1 ELSE nextId
                /\ clock' = clock + 1
                /\ toast' = <<Toast(IF t.cmd = "add_game" THEN "Game added!" ELSE "Game updated!",
                                    "success")>>
                /\ state' = st
                /\ form' = [form EXCEPT !.open = FALSE]
                /\ tasks' = RefreshAfterWrite(rest, "submit", st)
           ELSE /\ toast' = <<Toast("Failed to save game", "error")>>
                /\ form' = SubmitFinally(form)
                /\ tasks' = rest
                /\ UNCHANGED <<state, db, nextId, clock>>
        /\ UNCHANGED dom

\* ----------------------------------------------------------------- delete

\* promptDelete (main.js:783-789)
PromptDelete(st, d, id) ==
    LET found == FindGame(st.games, id)
    IN  /\ state' = IF found = <<>> THEN st ELSE [st EXCEPT !.pendingDeleteId = id]
        /\ dom' = IF found = <<>> THEN d
                  ELSE [d EXCEPT !.confirmGameTitle = found[1].title, !.confirmVisible = TRUE]
        /\ toast' = <<>>
        /\ UNCHANGED <<form, tasks, db, nextId, clock>>

\* the Delete button of the detail panel (main.js:314-317)
DetailDelete ==
    /\ dom.detailOpen
    /\ PromptDelete(CloseDetailState(state), [dom EXCEPT !.detailOpen = FALSE],
                    state.selectedGameId)

\* the delete button of a list card (main.js:179-181, 235)
ListDelete(id) ==
    /\ state.activeView # "stats" /\ state.isListView
    /\ id \in GridIds
    /\ PromptDelete(state, dom, id)

\* Cancel hiding the dialog and leaving pendingDeleteId (a variant of
\* ConfirmCancel).
ConfirmCancelKeeps ==
    /\ dom.confirmVisible
    /\ dom' = [dom EXCEPT !.confirmVisible = FALSE]
    /\ toast' = <<>>
    /\ UNCHANGED <<state, form, tasks, db, nextId, clock>>

\* #confirmCancel (main.js:791-794)
ConfirmCancel ==
    /\ dom.confirmVisible
    /\ dom' = [dom EXCEPT !.confirmVisible = FALSE]
    /\ state' = [state EXCEPT !.pendingDeleteId = NoId]
    /\ toast' = <<>>
    /\ UNCHANGED <<form, tasks, db, nextId, clock>>

DeleteTask(id) == [cmd |-> "delete_game", chain |-> "delete", id |-> id]

\* #confirmDelete, up to its await (main.js:796-799)
ConfirmDelete ==
    /\ dom.confirmVisible
    /\ IF state.pendingDeleteId = NoId
       THEN tasks' = tasks
       ELSE /\ CanStart
            /\ tasks' = Append(tasks, DeleteTask(state.pendingDeleteId))
    /\ toast' = <<>>
    /\ UNCHANGED <<state, form, dom, db, nextId, clock>>

\* delete_game replies (main.js:799-807).
DeleteReply(i, ok) ==
    LET t    == tasks[i]
        rest == RemoveAt(tasks, i)
        st   == [state EXCEPT !.pendingDeleteId = NoId]
    IN  /\ t.cmd = "delete_game"
        /\ ok => clock < MaxWrites
        /\ IF ok /\ Accepts(t)
           THEN /\ db' = DeleteGame(db, t.id)
                /\ clock' = clock + 1
                /\ toast' = <<Toast("Game deleted", "info")>>
                /\ dom' = [dom EXCEPT !.confirmVisible = FALSE]
                /\ state' = st
                /\ tasks' = RefreshAfterWrite(rest, "delete", st)
           ELSE /\ toast' = <<Toast("Failed to delete game", "error")>>
                /\ tasks' = rest
                /\ UNCHANGED <<state, dom, db, clock>>
        /\ UNCHANGED <<form, nextId>>

\* Escape is pressed (main.js:858-862)
Escape ==
    /\ state' = CloseModalState(CloseDetailState(state))
    /\ form' = [form EXCEPT !.open = FALSE]
    /\ dom' = [dom EXCEPT !.detailOpen = FALSE, !.confirmVisible = FALSE]
    /\ toast' = <<>>
    /\ UNCHANGED <<tasks, db, nextId, clock>>

\* --------------------------------------------------------- specifications

\* The values #f_title and #f_platform can hold when the form is submitted.
Titles == {form.f_title} \cup TitleTexts

Platforms == {form.f_platform} \cup PlatformTexts

\* Replies of the command layer to the handlers that wait for them.
Replies ==
    \/ \E i \in 1..Len(tasks), ok \in BOOLEAN : SearchReply(i, ok)
    \/ \E i \in 1..Len(tasks), c \in MetaCmds, ok \in BOOLEAN : MetaReply(i, c, ok)
    \/ \E i \in 1..Len(tasks), ok \in BOOLEAN : StatsReply(i, ok)
    \/ \E i \in 1..Len(tasks), ok \in BOOLEAN : CoverReply(i, ok)
    \/ \E i \in 1..Len(tasks), ok \in BOOLEAN : SaveReply(i, ok)
    \/ \E i \in 1..Len(tasks), ok \in BOOLEAN : DeleteReply(i, ok)

\* What the user does with the search box, the sort select and the chips.
Filtering ==
    \/ \E text \in SearchTexts : SearchInput(text)
    \/ \E field \in SortChoices : SortChange(field)
    \/ \E s \in StatusChips : StatusChipClick(s)
    \/ \E p \in Range(dom.platformChips) : PlatformChipClick(p)
    \/ \E g \in Range(dom.genreChips) : GenreChipClick(g)

\* What the user does with the views and the cards.
Browsing ==
    \/ \E view \in Views : NavClick(view)
    \/ \E list \in BOOLEAN : ViewToggle(list)
    \/ \E id \in GridIds : OpenDetail(id)
    \/ CloseDetail
    \/ Escape

\* What the user does with the add / edit modal.
Editing ==
    \/ OpenAdd
    \/ DetailEdit
    \/ \E id \in GridIds : ListEdit(id)
    \/ CloseModal
    \/ \E path \in CoverPaths : PickCover(path)
    \/ \E s \in StatusOpts : PickStatus(s)
    \/ \E v \in Stars : ClickStar(v)
    \/ \E text \in GenreTexts : GenreKey(text)
    \/ \E g \in Range(state.formGenres) : RemoveTag(g)
    \/ \E title \in Titles, platform \in Platforms : Submit(title, platform)

\* What the user does to delete a game.
Deleting ==
    \/ DetailDelete
    \/ \E id \in GridIds : ListDelete(id)
    \/ ConfirmCancel
    \/ ConfirmDelete

\* The whole page.
Next == Filtering \/ Browsing \/ Editing \/ Deleting \/ Replies

Spec == Init /\ [][Next]_vars

\* The filter controls alone, with the reads they start, from page load.
NextFilter ==
    \/ Filtering
    \/ \E i \in 1..Len(tasks), ok \in BOOLEAN : SearchReply(i, ok)
    \/ \E i \in 1..Len(tasks), c \in MetaCmds, ok \in BOOLEAN : MetaReply(i, c, ok)

SpecFilter == Init /\ [][NextFilter]_vars

\* The views, with one filter control and the reads they start, from page load.
NextView ==
    \/ \E view \in Views : NavClick(view)
    \/ \E list \in BOOLEAN : ViewToggle(list)
    \/ \E s \in StatusChips : StatusChipClick(s)
    \/ \E i \in 1..Len(tasks), ok \in BOOLEAN : SearchReply(i, ok)
    \/ \E i \in 1..Len(tasks), c \in MetaCmds, ok \in BOOLEAN : MetaReply(i, c, ok)
    \/ \E i \in 1..Len(tasks), ok \in BOOLEAN : StatsReply(i, ok)

SpecView == Init /\ [][NextView]_vars

\* A game is added with a typed title and platform while the user moves
\* between the Library and the Stats view, from page load.
NextAdd ==
    \/ \E view \in {"library", "stats"} : NavClick(view)
    \/ OpenAdd
    \/ \E title \in TitleTexts, platform \in PlatformTexts : Submit(title, platform)
    \/ \E i \in 1..Len(tasks), ok \in BOOLEAN : SaveReply(i, ok)
    \/ \E i \in 1..Len(tasks), ok \in BOOLEAN : SearchReply(i, ok)
    \/ \E i \in 1..Len(tasks), c \in MetaCmds, ok \in BOOLEAN : MetaReply(i, c, ok)
    \/ \E i \in 1..Len(tasks), ok \in BOOLEAN : StatsReply(i, ok)

SpecAdd == Init /\ [][NextAdd]_vars

\* Adding, editing and deleting from the list view while the status filter
\* changes, on the loaded page.
NextWrite ==
    \/ ViewToggle(TRUE)
    \/ \E s \in StatusChips : StatusChipClick(s)
    \/ OpenAdd
    \/ \E id \in GridIds \cap EditIds : ListEdit(id)
    \/ \E title \in Titles, platform \in Platforms : Submit(title, platform)
    \/ \E id \in GridIds \cap DeleteIds : ListDelete(id)
    \/ ConfirmDelete
    \/ \E i \in 1..Len(tasks), ok \in BOOLEAN : CoverReply(i, ok)
    \/ \E i \in 1..Len(tasks), ok \in BOOLEAN : SaveReply(i, ok)
    \/ \E i \in 1..Len(tasks), ok \in BOOLEAN : DeleteReply(i, ok)
    \/ \E i \in 1..Len(tasks), ok \in BOOLEAN : SearchReply(i, ok)
    \/ \E i \in 1..Len(tasks), c \in MetaCmds, ok \in BOOLEAN : MetaReply(i, c, ok)

SpecWrite == InitLoaded /\ [][NextWrite]_vars

\* A collection with thirteen genres in use: one more than renderGenreFilters
\* shows (main.js:353).
Sims ==
    [ Zelda EXCEPT !.id = 3, !.title = "Sims", !.franchise = Null,
                   !.sequence_in_franchise = NoNum, !.platform = "PC", !.status = "Playing",
                   !.genres = <<"G01", "G02", "G03", "G04", "G05", "G06",
                                "G07", "G08", "G09", "G10", "G11">> ]

TaggedDb == <<Zelda, Hades, Sims>>

\* The page after init() has completed over that collection (main.js:923-928).
TaggedState ==
    [InitialState EXCEPT !.games = SearchGames(TaggedDb, FilterArg(InitialState.currentFilter)),
                         !.allPlatforms = GetPlatforms(TaggedDb),
                         !.allFranchises = GetFranchises(TaggedDb),
                         !.allGenres = GetGenres(TaggedDb)]

InitTagged ==
    /\ state = TaggedState
    /\ form = InitialForm
    /\ dom = RenderFilters(RenderGames(InitialDom, TaggedState), TaggedState)
    /\ tasks = <<>>
    /\ toast = <<>>
    /\ db = TaggedDb
    /\ nextId = Len(TaggedDb) + 1
    /\ clock = 0

\* Adding, editing and deleting with the refresh that follows, over the
\* collection with thirteen genres.
SpecChips == InitTagged /\ [][NextWrite]_vars

\* The genre tags of the add / edit modal and its saves, on the loaded page.
NextForm ==
    \/ ViewToggle(TRUE)
    \/ OpenAdd
    \/ \E id \in GridIds \cap EditIds : ListEdit(id)
    \/ \E text \in GenreTexts : GenreKey(text)
    \/ \E g \in Range(state.formGenres) : RemoveTag(g)
    \/ \E title \in Titles, platform \in Platforms : Submit(title, platform)
    \/ \E i \in 1..Len(tasks), ok \in BOOLEAN : CoverReply(i, ok)
    \/ \E i \in 1..Len(tasks), ok \in BOOLEAN : SaveReply(i, ok)
    \/ \E i \in 1..Len(tasks), ok \in BOOLEAN : SearchReply(i, ok)
    \/ \E i \in 1..Len(tasks), c \in MetaCmds, ok \in BOOLEAN : MetaReply(i, c, ok)

SpecForm == InitLoaded /\ [][NextForm]_vars

\* What a field holds when the form is submitted with only the empty required
\* fields filled in: what openModal wrote, or what the user typed.
Filled(text, typed) == IF text = "" THEN typed ELSE {text}

\* The add / edit modal opened, closed and submitted with its status picker
\* and cover, the other fields left as openModal wrote them, on the loaded page.
NextModal ==
    \/ ViewToggle(TRUE)
    \/ OpenAdd
    \/ \E id \in GridIds : ListEdit(id)
    \/ CloseModal
    \/ Escape
    \/ \E s \in StatusOpts : PickStatus(s)
    \/ \E path \in CoverPaths : PickCover(path)
    \/ \E title \in Filled(form.f_title, {"Halo "}), platform \in Filled(form.f_platform, PlatformTexts) :
          Submit(title, platform)
    \/ \E i \in 1..Len(tasks), ok \in BOOLEAN : CoverReply(i, ok)
    \/ \E i \in 1..Len(tasks), ok \in BOOLEAN : SaveReply(i, ok)
    \/ \E i \in 1..Len(tasks), ok \in BOOLEAN : SearchReply(i, ok)
    \/ \E i \in 1..Len(tasks), c \in MetaCmds, ok \in BOOLEAN : MetaReply(i, c, ok)

SpecModal == InitLoaded /\ [][NextModal]_vars

\* Deleting from the cards and the detail panel, from page load.
NextDelete ==
    \/ ViewToggle(TRUE)
    \/ \E id \in GridIds : ListDelete(id)
    \/ \E id \in GridIds : OpenDetail(id)
    \/ DetailDelete
    \/ ConfirmCancel
    \/ ConfirmDelete
    \/ Escape
    \/ \E i \in 1..Len(tasks), ok \in BOOLEAN : DeleteReply(i, ok)
    \/ \E i \in 1..Len(tasks), ok \in BOOLEAN : SearchReply(i, ok)
    \/ \E i \in 1..Len(tasks), c \in MetaCmds, ok \in BOOLEAN : MetaReply(i, c, ok)

SpecDelete == Init /\ [][NextDelete]_vars

\* ------------------------------------------------------------ properties

IsSearch(t) == t.cmd = "search_games"

IsSave(t) == t.cmd \in {"add_game", "update_game"}

\* The requests a step issues: the handler appended to tasks by a user action,
\* or put last by a reply whose handler goes on to its next await.
Issued ==
    LET n == Len(tasks')
    IN  IF n = Len(tasks) + 1 /\ SubSeq(tasks', 1, n - 1) = tasks THEN {tasks'[n]}
        ELSE IF /\ n = Len(tasks) /\ n > 0
                /\ \E i \in 1..n : /\ SubSeq(tasks', 1, n - 1) = RemoveAt(tasks, i)
                                   /\ tasks'[n].cmd # tasks[i].cmd
             THEN {tasks'[n]}
             ELSE {}

Predicates == {"query", "status", "platform", "franchise", "genre"}

\* arg is the search_games filter that stands for the page's filter f.
SentFor(f, arg) ==
    /\ \A k \in Predicates : /\ arg[k] = Null <=> f[k] = ""
                             /\ f[k] # "" => arg[k] = f[k]
    /\ arg.sort_by = f.sortBy
    /\ arg.sort_asc = f.sortAsc

\* The handlers that call refresh(true) after their write.
WriteChains == {"submit", "delete"}

\* C1: every write the command layer accepts is followed, in the same handler,
\* by a search_games request built from the filter as it is then; when that
\* search is answered its result replaces state.games, and the handler goes on
\* to re-read platforms, franchises and genres.
C1_WriteThenRefresh ==
    [][ /\ clock' # clock =>
            \E t \in Issued : /\ IsSearch(t) /\ t.chain \in WriteChains
                              /\ SentFor(state'.currentFilter, t.filter)
        /\ \A i \in 1..Len(tasks) :
              (IsSearch(tasks[i]) /\ tasks[i].chain \in WriteChains /\ SearchReply(i, TRUE))
              => /\ state'.games = SearchGames(db, tasks[i].filter)
                 /\ \E t \in Issued : t.cmd = "meta" /\ t.waiting = MetaCmds ]_vars

\* C1 witness: a game was added while the Backlog chip was on, the refresh
\* search has been answered and the meta lists are being re-read.
C1_Witness ==
    /\ clock = 1 /\ Len(db) = 3
    /\ state.currentFilter.status = "Backlog"
    /\ Len(state.games) = 1
    /\ \E i \in 1..Len(tasks) : tasks[i].cmd = "meta" /\ tasks[i].chain = "submit"

\* C2: no add_game or update_game request carries an empty title or an empty
\* platform.
C2_RequiredBeforeSend ==
    \A i \in 1..Len(tasks) :
        IsSave(tasks[i]) => tasks[i].input.title # "" /\ tasks[i].input.platform # ""

\* A step in which a request fails.
FailedReply ==
    \E i \in 1..Len(tasks) :
        \/ IsSearch(tasks[i]) /\ SearchReply(i, FALSE)
        \/ tasks[i].cmd = "meta" /\ \E c \in MetaCmds : MetaReply(i, c, FALSE)
        \/ tasks[i].cmd = "get_stats" /\ StatsReply(i, FALSE)
        \/ tasks[i].cmd = "process_cover_image" /\ CoverReply(i, FALSE)
        \/ IsSave(tasks[i]) /\ SaveReply(i, FALSE)
        \/ tasks[i].cmd = "delete_game" /\ DeleteReply(i, FALSE)

\* The user is told of a failure: an error toast, or the error card of the
\* statistics view.
FailureShown ==
    \/ \E j \in 1..Len(toast) : toast[j].type = "error"
    \/ dom.statsGrid.phase = "error"

\* C3: whenever a request fails, a failure notification is shown.
C3_NoSilentFailure == [][FailedReply => FailureShown']_vars

\* C3 witness: the failures the page does report, here a failed search_games.
C3_Witness == toast = <<Toast("Failed to load games", "error")>> /\ state.games = <<>>

\* C4: in every search_games request each of query, status, platform,
\* franchise and genre is null exactly when the field of state.currentFilter
\* is empty when the request is issued, and is that field otherwise; sort_by
\* and sort_asc are the current sortBy and sortAsc.
C4_OmittedIsNull ==
    /\ \A i \in 1..Len(tasks) : IsSearch(tasks[i]) => SentFor(state.currentFilter, tasks[i].filter)
    /\ [][\A t \in Issued : IsSearch(t) => SentFor(state'.currentFilter, t.filter)]_vars

\* C4 witness: a request with a query and a platform, the other predicates null.
C4_Witness ==
    \E i \in 1..Len(tasks) :
        /\ IsSearch(tasks[i])
        /\ tasks[i].filter.query = "zel" /\ tasks[i].filter.platform = "PC"
        /\ tasks[i].filter.status = Null /\ tasks[i].filter.franchise = Null
        /\ tasks[i].filter.genre = Null /\ tasks[i].filter.sort_by = "Title"

\* The documented search criteria (README, Powerful Search & Filtering).
Criteria == Predicates \cup {"min_rating"}

Constrains(arg, c) == c \in DOMAIN arg /\ arg[c] # Null

\* The page has loaded and rests in a games view: every filter control the
\* page has is there to use.
FiltersReady ==
    /\ tasks = <<>>
    /\ state.activeView # "stats"
    /\ Len(dom.platformChips) > 1 /\ Len(dom.genreChips) > 1

\* C5: every documented criterion can be applied: on the loaded page, for each
\* criterion some user action issues a search_games request that constrains it.
C5_EveryCriterion ==
    FiltersReady =>
        \A c \in Criteria :
            ENABLED (NextFilter /\ \E t \in Issued : IsSearch(t) /\ Constrains(t.filter, c))

\* C5 witness: the criteria the page does offer, combined in one request.
C5_Witness ==
    \E i \in 1..Len(tasks) :
        /\ IsSearch(tasks[i])
        /\ \A c \in {"query", "status", "platform", "genre"} : Constrains(tasks[i].filter, c)

\* What decides C5 against the page: no request ever constrains franchise
\* (no handler assigns currentFilter.franchise), and the filter has no
\* minimum-rating predicate at all.
FranchiseNeverSent ==
    \A i \in 1..Len(tasks) :
        IsSearch(tasks[i]) =>
            ~Constrains(tasks[i].filter, "franchise") /\ ~Constrains(tasks[i].filter, "min_rating")

\* C6: the sort direction is selectable: on the idle page, for each sort field
\* and each direction some user actions issue a search_games request with that
\* field and direction; the field is picked with #sortSelect, the direction
\* by the action that issues the request.
C6_DirectionSelectable ==
    (tasks = <<>> /\ state.activeView # "stats") =>
        \A asc \in BOOLEAN :
            ENABLED (NextFilter /\ \E t \in Issued : IsSearch(t) /\ t.filter.sort_asc = asc)

\* C6 witness: the direction the page does send, with the sort field changed.
C6_Witness ==
    \E i \in 1..Len(tasks) :
        IsSearch(tasks[i]) /\ tasks[i].filter.sort_by = "Title" /\ ~tasks[i].filter.sort_asc

\* What decides C6 against the page: sortAsc stays false (no handler assigns it).
SortAscNeverSet ==
    /\ ~state.currentFilter.sortAsc
    /\ \A i \in 1..Len(tasks) : IsSearch(tasks[i]) => ~tasks[i].filter.sort_asc

\* C7: a navigation click changes activeView alone: currentFilter, games and
\* every other field of state stay as they are, and no search_games request is
\* issued.
C7_NavKeepsFilter ==
    [][\A v \in Views :
          NavClick(v) =>
              /\ state'.activeView = v
              /\ \A k \in DOMAIN state \ {"activeView"} : state'[k] = state[k]
              /\ SelectSeq(tasks', IsSearch) = SelectSeq(tasks, IsSearch)]_vars

\* C7 witness: the Backlog view entered with the Backlog chip on and the games
\* loaded under it.
C7_Witness ==
    /\ state.activeView = "backlog"
    /\ state.currentFilter.status = "Backlog"
    /\ Len(state.games) = 1
    /\ dom.gameGrid = state.games
    /\ tasks = <<>>

\* The list a games view has to show.
Displayed(games, view) ==
    CASE view = "backlog"  -> SelectSeq(games, LAMBDA g : g.status = "Backlog")
      [] view = "wishlist" -> SelectSeq(games, LAMBDA g : g.status = "Wishlist")
      [] OTHER             -> games

\* C8: once init() has rendered, in the Library view the grid is state.games
\* in its order, in the Backlog and Wishlist views the games of state.games
\* with that status; the count is the grid's length and the empty state shows
\* iff the grid is empty.  (During init() loadGames may have assigned
\* state.games with the render still to come, main.js:924-925.)
C8_ViewContents ==
    (~InitPending(tasks) /\ state.activeView # "stats") =>
        /\ dom.gameGrid = Displayed(state.games, state.activeView)
        /\ dom.gameCount = ToString(Len(dom.gameGrid))
                              \o (IF Len(dom.gameGrid) = 1 THEN " game" ELSE " games")
        /\ dom.emptyHidden <=> dom.gameGrid # <<>>

\* C8 witness: the Backlog view showing one of the two loaded games.
C8_Witness ==
    /\ ~InitPending(tasks)
    /\ state.activeView = "backlog"
    /\ Len(state.games) = 2
    /\ Len(dom.gameGrid) = 1 /\ dom.gameCount = "1 game"

\* C9: with the Stats view active and no request in flight, the statistics
\* shown are get_stats of the collection as it is.
C9_StatsCurrent ==
    (state.activeView = "stats" /\ tasks = <<>> /\ dom.statsGrid.phase = "shown")
        => dom.statsGrid.stats = <<ComputeStats(db)>>

\* C9 witness: the part that does hold: entering the Stats view issues a
\* get_stats request and blanks the grid.
C9_Witness ==
    /\ state.activeView = "stats"
    /\ dom.statsGrid.phase = "loading"
    /\ \E i \in 1..Len(tasks) : tasks[i].cmd = "get_stats"

NoDuplicates(seq) == \A i, j \in 1..Len(seq) : seq[i] = seq[j] => i = j

NoBlank(seq) == \A i \in 1..Len(seq) : Trim(seq[i]) # ""

\* C10: state.formGenres, and the genres of every add_game / update_game
\* request (also while its cover is processed), hold no label twice and no
\* empty or white-space label.
C10_GenresDistinct ==
    /\ NoDuplicates(state.formGenres) /\ NoBlank(state.formGenres)
    /\ \A i \in 1..Len(tasks) :
          (IsSave(tasks[i]) \/ tasks[i].cmd = "process_cover_image")
          => NoDuplicates(tasks[i].input.genres) /\ NoBlank(tasks[i].input.genres)

\* C10 witness: an update whose tags were removed and typed again, in
\* another order than the game had them.
C10_Witness ==
    \E i \in 1..Len(tasks) :
        tasks[i].cmd = "update_game" /\ tasks[i].input.genres = <<"RPG", "Indie">>

\* The handlers suspended with a submitted input.
HasInput(t) == IsSave(t) \/ t.cmd = "process_cover_image"

\* C11: the status of every add_game / update_game request is one of the six
\* values; with the modal open exactly one option is active; openModal leaves
\* NotStarted active for a new game and the stored status for an edited one,
\* and a submission sends the active option.
C11_StatusSent ==
    /\ [](/\ form.open => Cardinality(form.statusActive) = 1
          /\ \A i \in 1..Len(tasks) : HasInput(tasks[i]) => tasks[i].input.status \in Statuses)
    /\ [][/\ OpenAdd => form'.statusActive = {"NotStarted"}
          /\ \A id \in GridIds :
                (ListEdit(id) /\ FindGame(state.games, id) # <<>>)
                => form'.statusActive = {FindGame(state.games, id)[1].status}
          /\ \A s \in StatusOpts : PickStatus(s) => form'.statusActive = {s}
          /\ \A t \in Issued :
                (HasInput(t) /\ form'.submitDisabled /\ ~form.submitDisabled)
                => form.statusActive = {t.input.status}]_vars

\* C11 witness: both an untouched edit (the stored status Completed) and an
\* add with the picker clicked (Playing) have been submitted.
C11_Witness ==
    /\ \E i \in 1..Len(tasks) :
          tasks[i].cmd = "add_game" /\ tasks[i].input.status = "Playing"
    /\ \E g \in Range(db) : g.id = 2 /\ g.status = "Completed" /\ g.updated_at = 1

\* The step is a submission: the submit button goes from enabled to disabled.
Submitted == form'.submitDisabled /\ ~form.submitDisabled

CoverWarning == Toast("Warning: Could not process cover image", "error")

\* C12: no add_game / update_game request carries the path the user picked:
\* with an empty path in the form the write is sent at once with a null cover;
\* otherwise process_cover_image is asked first, and the write that follows
\* carries its result, or null after a warning when it fails.
C12_CoverProcessed ==
    /\ [](\A i \in 1..Len(tasks) :
             IsSave(tasks[i]) => tasks[i].input.cover_art_path \notin CoverPaths)
    /\ [][/\ Submitted =>
               \E t \in Issued :
                  IF form.f_cover_art_path = ""
                  THEN IsSave(t) /\ t.input.cover_art_path = Null
                  ELSE /\ t.cmd = "process_cover_image"
                       /\ t.input.cover_art_path = form.f_cover_art_path
          /\ \A i \in 1..Len(tasks), ok \in BOOLEAN :
                (tasks[i].cmd = "process_cover_image" /\ CoverReply(i, ok))
                => /\ \E t \in Issued :
                         /\ IsSave(t)
                         /\ t.input.cover_art_path =
                               IF ok THEN ProcessedCover(tasks[i].input.cover_art_path)
                               ELSE Null
                   /\ ~ok => toast' = <<CoverWarning>>]_vars

\* C12 witness: process_cover_image has failed for a picked file, the warning
\* shows and the add_game request is pending with a null cover.
C12_Witness ==
    /\ toast = <<CoverWarning>>
    /\ form.f_cover_art_path \in CoverPaths
    /\ \E i \in 1..Len(tasks) :
          tasks[i].cmd = "add_game" /\ tasks[i].input.cover_art_path = Null

IsWrite(t) == IsSave(t) \/ t.cmd = "delete_game"

\* C13: at most one mutating request (add_game, update_game, delete_game) is
\* in flight at any time.
C13_OneWriter == Cardinality({i \in 1..Len(tasks) : IsWrite(tasks[i])}) <= 1

\* C20: state.pendingDeleteId is non-null exactly when the confirmation dialog
\* is visible.
C20_MarkerTracksDialog == state.pendingDeleteId # NoId <=> dom.confirmVisible

\* C20 witness: the ways that do keep the two together, here Cancel after a
\* prompt from the detail panel.
C20_Witness ==
    /\ state.pendingDeleteId = NoId /\ ~dom.confirmVisible
    /\ dom.confirmGameTitle = "Hades"
    /\ tasks = <<>> /\ Len(db) = 2

\* The dialog asks about the game id: the marker and the title shown are its.
Prompted(st, d, id) ==
    /\ st.pendingDeleteId = id
    /\ d.confirmVisible
    /\ \E g \in Range(InitialDb) : g.id = id /\ d.confirmGameTitle = g.title

\* C19: a delete_game request is issued only with the dialog showing, for the
\* game the dialog asks about, which is the one last prompted; a prompt for a
\* game of state.games sets the marker and the title, a prompt for an id not
\* in state.games changes nothing; Cancel clears the marker and hides the
\* dialog, so that no request follows it before a new prompt.
C19_DeleteConfirmed ==
    /\ [](dom.confirmVisible => Prompted(state, dom, state.pendingDeleteId))
    /\ [][/\ \A t \in Issued :
                t.cmd = "delete_game" =>
                    /\ Prompted(state, dom, t.id)
                    /\ UNCHANGED <<state, dom, db>>
          /\ \A id \in GridIds :
                ListDelete(id) =>
                    IF FindGame(state.games, id) # <<>>
                    THEN Prompted(state', dom', id)
                    ELSE UNCHANGED <<state, dom, form, tasks, db>>
          /\ DetailDelete =>
                IF FindGame(state.games, state.selectedGameId) # <<>>
                THEN Prompted(state', dom', state.selectedGameId)
                ELSE state'.pendingDeleteId = state.pendingDeleteId
                     /\ dom'.confirmVisible = dom.confirmVisible
          /\ ConfirmCancel => state'.pendingDeleteId = NoId /\ ~dom'.confirmVisible]_vars

\* C19 witness: a delete_game request for the game the dialog names, prompted
\* after an earlier prompt for the other game.
C19_Witness ==
    /\ dom.confirmVisible /\ dom.confirmGameTitle = "Hades"
    /\ state.pendingDeleteId = 2
    /\ \E i \in 1..Len(tasks) : tasks[i].cmd = "delete_game" /\ tasks[i].id = 2
    /\ Len(db) = 1

SaveFailed == Toast("Failed to save game", "error")

\* C15: a failed add_game / update_game ends its handler: no request is
\* issued, the modal and state.games stay as they are and the submit button
\* is enabled; a failed delete_game leaves the dialog and pendingDeleteId as
\* they are and issues nothing; after a successful save the button is enabled
\* when the handler ends.  The button is disabled exactly while a submission
\* is in flight.
C15_FailedWrite ==
    /\ [](form.submitDisabled <=> \E i \in 1..Len(tasks) : tasks[i].chain = "submit")
    /\ [][\A i \in 1..Len(tasks), ok \in BOOLEAN :
             /\ (IsSave(tasks[i]) /\ SaveReply(i, ok) /\ clock' = clock)
                => /\ tasks' = RemoveAt(tasks, i)
                   /\ form'.open = form.open
                   /\ state' = state
                   /\ ~form'.submitDisabled
                   /\ toast' = <<SaveFailed>>
             /\ (tasks[i].cmd = "delete_game" /\ DeleteReply(i, ok) /\ clock' = clock)
                => /\ tasks' = RemoveAt(tasks, i)
                   /\ dom' = dom
                   /\ state' = state
             /\ (tasks[i].cmd = "meta" /\ tasks[i].chain = "submit"
                   /\ tasks' = RemoveAt(tasks, i))
                => ~form'.submitDisabled]_vars

\* C15 witness: a save has failed; the modal is open with its button enabled
\* and nothing is in flight.
C15_Witness ==
    /\ toast = <<SaveFailed>>
    /\ form.open /\ ~form.submitDisabled
    /\ state.editingGameId = 2
    /\ tasks = <<>>

\* C16: the write that follows process_cover_image is for the game that was
\* being edited when the form was submitted: update_game with that id, or
\* add_game when the form was in add mode.
C16_SubmitTarget ==
    [][\A i \in 1..Len(tasks), ok \in BOOLEAN :
          (tasks[i].cmd = "process_cover_image" /\ CoverReply(i, ok))
          => \A t \in Issued :
                IsSave(t) => /\ t.id = tasks[i].target
                             /\ t.cmd = "update_game" <=> tasks[i].target # NoId]_vars

\* C16 witness: the submission left alone: update_game for the edited game
\* after its cover was processed.
C16_Witness ==
    \E i \in 1..Len(tasks) :
        /\ tasks[i].cmd = "update_game" /\ tasks[i].id = 2
        /\ tasks[i].input.cover_art_path = ProcessedCover(Hades.cover_art_path)
        /\ state.editingGameId = 2

NoSearchPending(ts) == \A i \in 1..Len(ts) : ~IsSearch(ts[i])

\* C17: when a search_games answer leaves no search pending, state.games is
\* the answer to the request built from the current filter, also when the
\* answers of overlapping refreshes arrive out of order.
C17_LatestWins ==
    [][\A i \in 1..Len(tasks) :
          (IsSearch(tasks[i]) /\ SearchReply(i, TRUE) /\ NoSearchPending(tasks'))
          => state'.games = SearchGames(db, FilterArg(state'.currentFilter))]_vars

\* C17 witness: refreshes answered in the order issued: the query's one match
\* is loaded and nothing is pending.
C17_Witness ==
    /\ tasks = <<>>
    /\ state.currentFilter.query = "zel" /\ state.currentFilter.status = "Backlog"
    /\ Len(state.games) = 1 /\ dom.gameGrid = state.games

\* The fields update_game replaces, as the claim lists them.
MutableFields(r) ==
    [ title |-> r.title, franchise |-> r.franchise,
      sequence_in_franchise |-> r.sequence_in_franchise, platform |-> r.platform,
      release_date |-> r.release_date, developer |-> r.developer,
      publisher |-> r.publisher, status |-> r.status,
      progress_percent |-> r.progress_percent, playtime_hours |-> r.playtime_hours,
      rating |-> r.rating, notes |-> r.notes, screenshots |-> r.screenshots,
      genres |-> r.genres ]

\* The edit form is as openModal left it for the game being edited.
Untouched ==
    /\ state.editingGameId # NoId
    /\ FindGame(state.games, state.editingGameId) # <<>>
    /\ form = OpenModalForm(form, state, state.editingGameId)
    /\ state = OpenModalState(state, state.editingGameId)

\* C18: submitting an edit form nobody touched sends an input equal to the
\* stored mutable fields of the game, so the full replace changes nothing.
C18_UnmodifiedEdit ==
    [][(Untouched /\ Submitted)
       => \A t \in Issued :
             HasInput(t) => MutableFields(t.input)
                            = MutableFields(FindGame(state.games, state.editingGameId)[1])]_vars

\* C18 witness: an untouched edit of Zelda, whose progress is null, has been
\* submitted and its update_game is pending.
C18_Witness ==
    \E i \in 1..Len(tasks) :
        /\ tasks[i].cmd = "update_game" /\ tasks[i].id = 1
        /\ tasks[i].input.title = "Zelda" /\ tasks[i].input.genres = <<"RPG">>
        /\ \E j \in 1..Len(db) : db[j].id = 1 /\ db[j].progress_percent = NoNum

InUsePlatforms(store) == {store[j].platform : j \in 1..Len(store)}

InUseGenres(store) == UNION {Range(store[j].genres) : j \in 1..Len(store)}

\* The values offered by a row of filter chips, the "All" chip aside.
Offered(chips) == Range(chips) \ {""}

\* C14: when the last of the three lists re-read after an add, update or delete
\* arrives and none has failed, the platform chips are exactly the platforms in
\* use and the genre chips exactly the genres in use in the collection.
C14_ChipsInUse ==
    [][\A i \in 1..Len(tasks), c \in MetaCmds :
          (/\ tasks[i].cmd = "meta" /\ tasks[i].chain \in WriteChains
           /\ tasks[i].waiting = {c} /\ MetaReply(i, c, TRUE))
          => /\ Offered(dom'.platformChips) = InUsePlatforms(db)
             /\ Offered(dom'.genreChips) = InUseGenres(db)]_vars

\* C14 witness: a delete and its refresh have completed; the platform chips
\* are the platforms in use and twelve genre chips are shown.
C14_Witness ==
    /\ tasks = <<>> /\ Len(db) = 2 /\ clock > 0
    /\ state.allGenres = GetGenres(db)
    /\ Offered(dom.platformChips) = InUsePlatforms(db)
    /\ Len(dom.genreChips) = GenreChipLimit + 1

====
